---- MODULE Spec2Model ----
(***************************************************************************)
(* Model of scripts/generate_source.go: one run of the generator script.   *)
(* The run reads <path>/source.yml, projects it to a DTO, dispatches on    *)
(* the programming language and, for golang, resolves the uranus binary,   *)
(* generates the app, creates the GitHub repository and pushes the code.   *)
(* Every file-system call and every subprocess is one step of the run; the *)
(* outcome of a subprocess is chosen nondeterministically when it is run.  *)
(***************************************************************************)
EXTENDS Integers, Sequences, FiniteSets, TLC

VARIABLES
    args,       \* os.Args
    platform,   \* <<runtime.GOOS, runtime.GOARCH>>
    fs,         \* the file system the run sees: descriptor file, local binary, generated folder
    env,        \* the environment variables GH_TOKEN and GITHUB_TOKEN
    pc,         \* the position of the run in main and its callees
    data,       \* main: the bytes read from source.yml (a YAML document)
    config,     \* main: the SourceConfig
    dto,        \* main: the GeneratorSourceDto
    uranusBin,  \* processGolang: the resolved binary
    repoURL,    \* pushToRepo: the remote URL
    cmdIdx,     \* pushToRepo: index of the next entry of commands
    err,        \* the error returned to main by processService (<<>> is nil)
    out,        \* the lines printed to standard output, each a sequence of chunks
    cmdLog,     \* the subprocesses run so far, with their outcome
    fsLog,      \* the file-system calls made so far
    exitCode    \* the exit status of the process, -1 while it runs

vars == <<args, platform, fs, env, pc, data, config, dto, uranusBin, repoURL,
          cmdIdx, err, out, cmdLog, fsLog, exitCode>>

(***************************************************************************)
(* Bounds of the inputs.                                                   *)
(***************************************************************************)
MaxMembers == 2

MemberNames == {"alice", "bob"}
AppNames == {"sample-svc"}
Languages == {"golang", "nodejs", "Golang", "python"}
GhTokens == {"", "gh-tok"}
GithubTokens == {"", "github-tok"}
ServicePaths == {<<"sources-service", "sample">>, <<>>}
Platforms == {<<"linux", "amd64">>, <<"darwin", "arm64">>}
StatOutcomes == {"ok", "notexist", "denied"}

\* The sequences over S of length at most n.
RECURSIVE SeqsUpTo(_, _)
SeqsUpTo(S, n) ==
    IF n = 0 THEN {<<>>}
    ELSE LET shorter == SeqsUpTo(S, n - 1)
         IN shorter \cup {Append(s, x) : s \in {t \in shorter : Len(t) = n - 1}, x \in S}

(***************************************************************************)
(* YAML documents: a document is a record holding the keys it has.         *)
(***************************************************************************)
MetadataDocs ==
    {<<>>}
    \cup {[programming_language |-> l] : l \in Languages}
    \cup {[programming_language |-> "golang", framework |-> "gin", module |-> "custom/mod"]}

Docs ==
    {<<>>, [source_id |-> "id-1", name |-> "sample-svc"],
     [metadata |-> [programming_language |-> "golang"]]}
    \cup {[name |-> n, metadata |-> m] : n \in AppNames, m \in MetadataDocs}
    \cup {[source_id |-> "id-1", name |-> n, members |-> ms, metadata |-> m, extra |-> "x"] :
              n \in AppNames, ms \in SeqsUpTo(MemberNames, MaxMembers),
              m \in {[programming_language |-> l, module |-> "custom/mod"] : l \in {"golang", "nodejs"}}}

Field(doc, key, zero) == IF key \in DOMAIN doc THEN doc[key] ELSE zero

\* The states the descriptor file can be in.
FileStates ==
    {[kind |-> k, doc |-> <<>>] : k \in {"missing", "denied", "malformed"}}
    \cup {[kind |-> "valid", doc |-> d] : d \in Docs}

(***************************************************************************)
(* Types and zero values of the Go structs.                                *)
(***************************************************************************)
ZeroMetadata == [ProgrammingLanguage |-> "", Framework |-> "", Module |-> ""]
ZeroSourceConfig == [SourceID |-> "", Name |-> "", Members |-> <<>>, Metadata |-> ZeroMetadata]
ZeroGeneratorSourceDto ==
    [AppName |-> "", ProgrammingLanguage |-> "", Framework |-> "", Module |-> "", Members |-> <<>>]

\* yaml.Unmarshal into a zero SourceConfig: known keys are copied, unknown
\* keys are ignored, missing keys keep the zero value.
Unmarshal(doc) ==
    LET md == Field(doc, "metadata", <<>>)
    IN [SourceID |-> Field(doc, "source_id", ""),
        Name     |-> Field(doc, "name", ""),
        Members  |-> Field(doc, "members", <<>>),
        Metadata |-> [ProgrammingLanguage |-> Field(md, "programming_language", ""),
                      Framework           |-> Field(md, "framework", ""),
                      Module              |-> Field(md, "module", "")]]

RECURSIVE Reverse(_)
Reverse(s) == IF s = <<>> THEN <<>> ELSE Append(Reverse(Tail(s)), Head(s))

\* Variant of ToDto: the members are collected in reverse.
ToDtoReversedMembers(c) ==
    [AppName             |-> c.Name,
     ProgrammingLanguage |-> c.Metadata.ProgrammingLanguage,
     Framework           |-> c.Metadata.Framework,
     Module              |-> c.Metadata.Module,
     Members             |-> Reverse(c.Members)]

\* The DTO literal of main.
ToDto(c) ==
    [AppName             |-> c.Name,
     ProgrammingLanguage |-> c.Metadata.ProgrammingLanguage,
     Framework           |-> c.Metadata.Framework,
     Module              |-> c.Metadata.Module,
     Members             |-> c.Members]

(***************************************************************************)
(* Paths: a path is the sequence of its elements.                          *)
(***************************************************************************)
Join(dir, name) == dir \o <<name>>
Base(path) == IF path = <<>> THEN "." ELSE path[Len(path)]

RECURSIVE PathStr(_)
PathStr(path) ==
    IF path = <<>> THEN "."
    ELSE IF Len(path) = 1 THEN path[1]
    ELSE PathStr(SubSeq(path, 1, Len(path) - 1)) \o "/" \o path[Len(path)]

distDir == <<"dist">>
binaryName == "uranus-" \o platform[1] \o "-" \o platform[2]
binaryPath == PathStr(Join(distDir, binaryName))

(***************************************************************************)
(* Errors and printed lines.  An error is the sequence of the chunks of    *)
(* its message, outermost wrapper first; <<>> is the nil error.            *)
(***************************************************************************)
nil == <<>>
ExitError == <<"exit status 1">>
Wrap(prefix, e) == <<prefix>> \o e

ReadError(kind) ==
    IF kind = "missing" THEN <<"no such file or directory">> ELSE <<"permission denied">>

printDTO(d) ==
    <<<<"GENERATOR SOURCE DTO">>,
      <<"AppName: ", d.AppName>>,
      <<"ProgrammingLanguage: ", d.ProgrammingLanguage>>,
      <<"Framework: ", d.Framework>>,
      <<"Module: ", d.Module>>,
      <<"Members: ">> \o d.Members>>

\* A subprocess: exec.Command(name, args...) run in directory dir ("" is the
\* working directory of the run), and whether it succeeded.
Cmd(name, cargs, dir, ok) == [name |-> name, args |-> cargs, dir |-> dir, ok |-> ok]

runCommandLine(name, cargs) == <<"  -> Running: ", name>> \o cargs
runCommandInDirLine(dir, name, cargs) == <<"  -> Running in ", dir, ": ", name>> \o cargs

\* The command table of pushToRepo.
commands(url) ==
    << [name |-> "git", args |-> <<"init">>],
       [name |-> "git", args |-> <<"config", "user.email", "github-actions[bot]@users.noreply.github.com">>],
       [name |-> "git", args |-> <<"config", "user.name", "github-actions[bot]">>],
       [name |-> "git", args |-> <<"remote", "add", "origin", url>>],
       [name |-> "git", args |-> <<"add", "-A">>],
       [name |-> "git", args |-> <<"commit", "-m", "Initial commit from jupiter-registry">>],
       [name |-> "git", args |-> <<"branch", "-M", "main">>],
       [name |-> "git", args |-> <<"push", "-u", "origin", "main", "--force">>] >>

NumCommands == Len(commands(""))

\* Variant of ghToken: GITHUB_TOKEN is looked up first.
ghTokenGithubFirst == IF env.GITHUB_TOKEN = "" THEN env.GH_TOKEN ELSE env.GITHUB_TOKEN

\* The token and the remote URL pushToRepo builds from the environment.
ghToken == IF env.GH_TOKEN = "" THEN env.GITHUB_TOKEN ELSE env.GH_TOKEN
repoOwner == "tqhuy-dev"
BuildRepoURL(token, appName) ==
    IF token # ""
    THEN "https://x-access-token:" \o token \o "@github.com/" \o repoOwner \o "/" \o appName \o ".git"
    ELSE "https://github.com/" \o repoOwner \o "/" \o appName \o ".git"

\* os.Stat(repoDir) in pushToRepo: the empty path never exists.
StatFolder(appName) == IF appName = "" THEN "notexist" ELSE fs.folderStat

servicePath == args[2]
sourceFile == Join(servicePath, "source.yml")

(***************************************************************************)
(* The initial state: the process has been started and nothing has run.    *)
(***************************************************************************)
Init ==
    /\ args \in {<<"generate_source">>} \cup {<<"generate_source", p>> : p \in ServicePaths}
    /\ platform \in Platforms
    /\ fs \in [file : FileStates, binaryStat : StatOutcomes, folderStat : StatOutcomes]
    /\ env \in [GH_TOKEN : GhTokens, GITHUB_TOKEN : GithubTokens]
    /\ pc = "main"
    /\ data = <<>>
    /\ config = ZeroSourceConfig
    /\ dto = ZeroGeneratorSourceDto
    /\ uranusBin = ""
    /\ repoURL = ""
    /\ cmdIdx = 0
    /\ err = nil
    /\ out = <<>>
    /\ cmdLog = <<>>
    /\ fsLog = <<>>
    /\ exitCode = -1

inputs == <<args, platform, env>>

\* os.Exit(code) after printing lines.
Exit(lines, code) ==
    /\ out' = out \o lines
    /\ exitCode' = code
    /\ pc' = "exited"

\* A callee returns e to main through processService.
ReturnToMain(lines, e) ==
    /\ out' = out \o lines
    /\ err' = e
    /\ pc' = "return"

\* Variant of mainArgs: the usage exit reports success.
mainArgsUsageExitsZero ==
    /\ pc = "main"
    /\ IF Len(args) < 2
       THEN Exit(<< <<"Usage: go run generate_source.go <path-to-service-folder>">>,
                    <<"Example: go run generate_source.go sources-service/sample">> >>, 0)
       ELSE /\ pc' = "ReadFile"
            /\ UNCHANGED <<out, exitCode>>
    /\ UNCHANGED <<inputs, fs, data, config, dto, uranusBin, repoURL, cmdIdx, err, cmdLog, fsLog>>

(***************************************************************************)
(* main, lines 38-51: the argument check and the file-name check.          *)
(***************************************************************************)
mainArgs ==
    /\ pc = "main"
    /\ IF Len(args) < 2
       THEN Exit(<< <<"Usage: go run generate_source.go <path-to-service-folder>">>,
                    <<"Example: go run generate_source.go sources-service/sample">> >>, 1)
       ELSE IF Base(sourceFile) # "source.yml"
       THEN Exit(<< <<"Skipped: File must be named 'source.yml', got: ", Base(sourceFile)>> >>, 0)
       ELSE /\ pc' = "ReadFile"
            /\ UNCHANGED <<out, exitCode>>
    /\ UNCHANGED <<inputs, fs, data, config, dto, uranusBin, repoURL, cmdIdx, err, cmdLog, fsLog>>

\* Variant of mainReadFile: a read error is dropped and the run goes on with
\* empty data.
mainReadFileIgnoresError ==
    /\ pc = "ReadFile"
    /\ fsLog' = Append(fsLog, <<"ReadFile", PathStr(sourceFile)>>)
    /\ data' = IF fs.file.kind \in {"missing", "denied"}
               THEN [kind |-> "valid", doc |-> <<>>] ELSE fs.file
    /\ pc' = "Unmarshal"
    /\ UNCHANGED <<out, exitCode>>
    /\ UNCHANGED <<inputs, fs, config, dto, uranusBin, repoURL, cmdIdx, err, cmdLog>>

(***************************************************************************)
(* main, lines 54-58: os.ReadFile(sourceFile).                             *)
(***************************************************************************)
mainReadFile ==
    /\ pc = "ReadFile"
    /\ fsLog' = Append(fsLog, <<"ReadFile", PathStr(sourceFile)>>)
    /\ IF fs.file.kind \in {"missing", "denied"}
       THEN /\ Exit(<< <<"Error reading file ", PathStr(sourceFile), ": ">>
                           \o ReadError(fs.file.kind) >>, 1)
            /\ UNCHANGED data
       ELSE /\ data' = fs.file
            /\ pc' = "Unmarshal"
            /\ UNCHANGED <<out, exitCode>>
    /\ UNCHANGED <<inputs, fs, config, dto, uranusBin, repoURL, cmdIdx, err, cmdLog>>

(***************************************************************************)
(* main, lines 61-65: yaml.Unmarshal(data, &config).                       *)
(***************************************************************************)
mainUnmarshal ==
    /\ pc = "Unmarshal"
    /\ IF data.kind = "malformed"
       THEN /\ Exit(<< <<"Error parsing YAML: ", "yaml: unmarshal errors">> >>, 1)
            /\ UNCHANGED config
       ELSE /\ config' = Unmarshal(data.doc)
            /\ pc' = "Convert"
            /\ UNCHANGED <<out, exitCode>>
    /\ UNCHANGED <<inputs, fs, data, dto, uranusBin, repoURL, cmdIdx, err, cmdLog, fsLog>>

(***************************************************************************)
(* main, lines 68-77: the DTO literal and printDTO.                        *)
(***************************************************************************)
mainConvert ==
    /\ pc = "Convert"
    /\ dto' = ToDto(config)
    /\ out' = out \o printDTO(dto')
    /\ pc' = "processService"
    /\ UNCHANGED <<inputs, fs, data, config, uranusBin, repoURL, cmdIdx, err, cmdLog, fsLog, exitCode>>

\* Variant of processService: the language is matched ignoring case.
processServiceIgnoresCase ==
    /\ pc = "processService"
    /\ IF dto.ProgrammingLanguage \in {"golang", "Golang"}
       THEN /\ pc' = "processGolang"
            /\ UNCHANGED <<out, err>>
       ELSE IF dto.ProgrammingLanguage = "nodejs"
       THEN /\ pc' = "processNodeJS"
            /\ UNCHANGED <<out, err>>
       ELSE ReturnToMain(<<>>, <<"unsupported programming language: ", dto.ProgrammingLanguage>>)
    /\ UNCHANGED <<inputs, fs, data, config, dto, uranusBin, repoURL, cmdIdx, cmdLog, fsLog, exitCode>>

(***************************************************************************)
(* processService, lines 100-109: the switch on the language.              *)
(***************************************************************************)
processService ==
    /\ pc = "processService"
    /\ IF dto.ProgrammingLanguage = "golang"
       THEN /\ pc' = "processGolang"
            /\ UNCHANGED <<out, err>>
       ELSE IF dto.ProgrammingLanguage = "nodejs"
       THEN /\ pc' = "processNodeJS"
            /\ UNCHANGED <<out, err>>
       ELSE ReturnToMain(<<>>, <<"unsupported programming language: ", dto.ProgrammingLanguage>>)
    /\ UNCHANGED <<inputs, fs, data, config, dto, uranusBin, repoURL, cmdIdx, cmdLog, fsLog, exitCode>>

\* Variant of processNodeJS: the unimplemented pipeline is an error.
processNodeJSFails ==
    /\ pc = "processNodeJS"
    /\ ReturnToMain(<< <<"NodeJS processing not implemented yet">> >>,
                    <<"nodejs processing not implemented">>)
    /\ UNCHANGED <<inputs, fs, data, config, dto, uranusBin, repoURL, cmdIdx, cmdLog, fsLog, exitCode>>

(***************************************************************************)
(* processNodeJS, lines 175-179.                                           *)
(***************************************************************************)
processNodeJS ==
    /\ pc = "processNodeJS"
    /\ ReturnToMain(<< <<"NodeJS processing not implemented yet">> >>, nil)
    /\ UNCHANGED <<inputs, fs, data, config, dto, uranusBin, repoURL, cmdIdx, cmdLog, fsLog, exitCode>>

(***************************************************************************)
(* processGolang, lines 143-148: entry, up to the call of getUranusBinary. *)
(***************************************************************************)
processGolang ==
    /\ pc = "processGolang"
    /\ out' = out \o << <<"Processing Golang service...">>, <<"Finding uranus CLI...">> >>
    /\ pc' = "getUranusBinary"
    /\ UNCHANGED <<inputs, fs, data, config, dto, uranusBin, repoURL, cmdIdx, err, cmdLog, fsLog, exitCode>>

\* Variant of getUranusBinary: the test of the Stat error is inverted.
getUranusBinaryInvertedStat ==
    /\ pc = "getUranusBinary"
    /\ fsLog' = Append(fsLog, <<"Stat", binaryPath>>)
    /\ IF fs.binaryStat # "ok"
       THEN /\ pc' = "Chmod"
            /\ UNCHANGED out
       ELSE /\ out' = Append(out, <<"Local binary not found for ", platform[1], "-", platform[2],
                                    ", using go install...">>)
            /\ pc' = "goInstall"
    /\ UNCHANGED <<inputs, fs, data, config, dto, uranusBin, repoURL, cmdIdx, err, cmdLog, exitCode>>

(***************************************************************************)
(* getUranusBinary, lines 112-124 and 134: os.Stat(binaryPath).            *)
(***************************************************************************)
getUranusBinary ==
    /\ pc = "getUranusBinary"
    /\ fsLog' = Append(fsLog, <<"Stat", binaryPath>>)
    /\ IF fs.binaryStat = "ok"
       THEN /\ pc' = "Chmod"
            /\ UNCHANGED out
       ELSE /\ out' = Append(out, <<"Local binary not found for ", platform[1], "-", platform[2],
                                    ", using go install...">>)
            /\ pc' = "goInstall"
    /\ UNCHANGED <<inputs, fs, data, config, dto, uranusBin, repoURL, cmdIdx, err, cmdLog, exitCode>>

\* Variant of getUranusBinaryChmod: a failed chmod falls back to go install.
getUranusBinaryChmodFallsBack ==
    /\ pc = "Chmod"
    /\ fsLog' = Append(fsLog, <<"Chmod", binaryPath>>)
    /\ \E ok \in BOOLEAN :
          IF ok
          THEN /\ out' = Append(out, <<"Found local binary: ", binaryPath>>)
               /\ uranusBin' = binaryPath
               /\ pc' = "generate"
          ELSE /\ out' = Append(out, <<"Local binary not found for ", platform[1], "-", platform[2],
                                       ", using go install...">>)
               /\ pc' = "goInstall"
               /\ UNCHANGED uranusBin
    /\ UNCHANGED <<inputs, fs, data, config, dto, repoURL, cmdIdx, err, cmdLog, exitCode>>

(***************************************************************************)
(* getUranusBinary, lines 126-130: os.Chmod(binaryPath, 0755); on failure  *)
(* processGolang (149-151) wraps the error and returns it.                 *)
(***************************************************************************)
getUranusBinaryChmod ==
    /\ pc = "Chmod"
    /\ fsLog' = Append(fsLog, <<"Chmod", binaryPath>>)
    /\ \E ok \in BOOLEAN :
          IF ok
          THEN /\ out' = Append(out, <<"Found local binary: ", binaryPath>>)
               /\ uranusBin' = binaryPath
               /\ pc' = "generate"
               /\ UNCHANGED err
          ELSE /\ ReturnToMain(<<>>, Wrap("failed to get uranus binary: ",
                                     Wrap("failed to chmod binary: ", <<"operation not permitted">>)))
               /\ UNCHANGED uranusBin
    /\ UNCHANGED <<inputs, fs, data, config, dto, repoURL, cmdIdx, cmdLog, exitCode>>

\* Variant of getUranusBinaryInstall: the error of go install is not checked.
getUranusBinaryInstallUnchecked ==
    /\ pc = "goInstall"
    /\ \E ok \in BOOLEAN :
          LET cargs == <<"install", "github.com/tqhuy-dev/xgen-uranus@latest">>
          IN /\ cmdLog' = Append(cmdLog, Cmd("go", cargs, "", ok))
             /\ out' = Append(out, runCommandLine("go", cargs))
             /\ uranusBin' = "uranus"
             /\ pc' = "generate"
             /\ UNCHANGED err
    /\ UNCHANGED <<inputs, fs, data, config, dto, repoURL, cmdIdx, fsLog, exitCode>>

(***************************************************************************)
(* getUranusBinary, lines 135-140: the go install fallback.                *)
(***************************************************************************)
getUranusBinaryInstall ==
    /\ pc = "goInstall"
    /\ \E ok \in BOOLEAN :
          LET cargs == <<"install", "github.com/tqhuy-dev/xgen-uranus@latest">>
          IN /\ cmdLog' = Append(cmdLog, Cmd("go", cargs, "", ok))
             /\ IF ok
                THEN /\ out' = Append(out, runCommandLine("go", cargs))
                     /\ uranusBin' = "uranus"
                     /\ pc' = "generate"
                     /\ UNCHANGED err
                ELSE /\ ReturnToMain(<<runCommandLine("go", cargs)>>,
                                     Wrap("failed to get uranus binary: ",
                                          Wrap("failed to install uranus CLI: ", ExitError)))
                     /\ UNCHANGED uranusBin
    /\ UNCHANGED <<inputs, fs, data, config, dto, repoURL, cmdIdx, fsLog, exitCode>>

(***************************************************************************)
(* processGolang, lines 153-158: the generator subprocess.  The generator  *)
(* is opaque: whatever its exit status, it may leave the folder named as   *)
(* the application in any state.                                           *)
(***************************************************************************)
\* Variant of generateArgs: the module of the descriptor is used when it has one.
generateArgsDescriptorModule(appName) ==
    <<"generate", "app", "--name", appName,
      "--module", IF dto.Module # "" THEN dto.Module ELSE "github.com/tqhuy-dev/" \o appName,
      "--skip_init=true">>

generateArgs(appName) ==
    <<"generate", "app", "--name", appName,
      "--module", "github.com/tqhuy-dev/" \o appName, "--skip_init=true">>

\* Variant of processGolangGenerate: the generator's error is not checked.
processGolangGenerateUnchecked ==
    /\ pc = "generate"
    /\ \E ok \in BOOLEAN, folder \in StatOutcomes :
          LET cargs == generateArgs(dto.AppName)
              lines == << <<"Generating app: ", dto.AppName>>, runCommandLine(uranusBin, cargs) >>
          IN /\ cmdLog' = Append(cmdLog, Cmd(uranusBin, cargs, "", ok))
             /\ fs' = [fs EXCEPT !.folderStat = folder]
             /\ out' = out \o lines
             /\ pc' = "createGitHubRepo"
             /\ UNCHANGED err
    /\ UNCHANGED <<inputs, data, config, dto, uranusBin, repoURL, cmdIdx, fsLog, exitCode>>

processGolangGenerate ==
    /\ pc = "generate"
    /\ \E ok \in BOOLEAN, folder \in StatOutcomes :
          LET cargs == generateArgs(dto.AppName)
              lines == << <<"Generating app: ", dto.AppName>>, runCommandLine(uranusBin, cargs) >>
          IN /\ cmdLog' = Append(cmdLog, Cmd(uranusBin, cargs, "", ok))
             /\ fs' = [fs EXCEPT !.folderStat = folder]
             /\ IF ok
                THEN /\ out' = out \o lines
                     /\ pc' = "createGitHubRepo"
                     /\ UNCHANGED err
                ELSE ReturnToMain(lines, Wrap("failed to generate app: ", ExitError))
    /\ UNCHANGED <<inputs, data, config, dto, uranusBin, repoURL, cmdIdx, fsLog, exitCode>>

\* Variant of createGitHubRepo: the error of gh repo create is returned.
createGitHubRepoFatal ==
    /\ pc = "createGitHubRepo"
    /\ \E ok \in BOOLEAN :
          LET cargs == <<"repo", "create", "tqhuy-dev/" \o dto.AppName, "--private", "--confirm">>
              lines == << <<"Creating GitHub repository: ", dto.AppName>>, runCommandLine("gh", cargs) >>
          IN /\ cmdLog' = Append(cmdLog, Cmd("gh", cargs, "", ok))
             /\ IF ok
                THEN /\ out' = out \o lines
                     /\ pc' = "pushToRepo"
                     /\ UNCHANGED err
                ELSE ReturnToMain(lines, Wrap("failed to create GitHub repo: ", ExitError))
    /\ UNCHANGED <<inputs, fs, data, config, dto, uranusBin, repoURL, cmdIdx, fsLog, exitCode>>

(***************************************************************************)
(* processGolang, lines 160-164, and createGitHubRepo, lines 198-211.      *)
(***************************************************************************)
createGitHubRepo ==
    /\ pc = "createGitHubRepo"
    /\ \E ok \in BOOLEAN :
          LET cargs == <<"repo", "create", "tqhuy-dev/" \o dto.AppName, "--private", "--confirm">>
              lines == << <<"Creating GitHub repository: ", dto.AppName>>, runCommandLine("gh", cargs) >>
          IN /\ cmdLog' = Append(cmdLog, Cmd("gh", cargs, "", ok))
             /\ out' = out \o lines
                       \o (IF ok THEN <<>>
                           ELSE << <<"Note: ">> \o ExitError \o <<" (repo might already exist)">> >>)
             /\ pc' = "pushToRepo"
    /\ UNCHANGED <<inputs, fs, data, config, dto, uranusBin, repoURL, cmdIdx, err, fsLog, exitCode>>

\* Variant of pushToRepo: every Stat error counts as a missing folder.
pushToRepoAnyStatError ==
    /\ pc = "pushToRepo"
    /\ fsLog' = Append(fsLog, <<"Stat", dto.AppName>>)
    /\ IF StatFolder(dto.AppName) # "ok"
       THEN /\ ReturnToMain(<< <<"Pushing code to repository...">> >>,
                            Wrap("failed to push to repo: ",
                                 <<"generated folder not found: ", dto.AppName>>))
            /\ UNCHANGED <<repoURL, cmdIdx>>
       ELSE /\ out' = Append(out, <<"Pushing code to repository...">>)
            /\ repoURL' = BuildRepoURL(ghToken, dto.AppName)
            /\ cmdIdx' = 1
            /\ pc' = "pushCommands"
            /\ UNCHANGED err
    /\ UNCHANGED <<inputs, fs, data, config, dto, uranusBin, cmdLog, exitCode>>

\* Variant of pushToRepo: the folder check is left out.
pushToRepoNoFolderCheck ==
    /\ pc = "pushToRepo"
    /\ fsLog' = Append(fsLog, <<"Stat", dto.AppName>>)
    /\ out' = Append(out, <<"Pushing code to repository...">>)
    /\ repoURL' = BuildRepoURL(ghToken, dto.AppName)
    /\ cmdIdx' = 1
    /\ pc' = "pushCommands"
    /\ UNCHANGED err
    /\ UNCHANGED <<inputs, fs, data, config, dto, uranusBin, cmdLog, exitCode>>

(***************************************************************************)
(* processGolang, lines 166-170, and pushToRepo, lines 213-251: the folder *)
(* check, the token and the remote URL.                                    *)
(***************************************************************************)
pushToRepo ==
    /\ pc = "pushToRepo"
    /\ fsLog' = Append(fsLog, <<"Stat", dto.AppName>>)
    /\ IF StatFolder(dto.AppName) = "notexist"
       THEN /\ ReturnToMain(<< <<"Pushing code to repository...">> >>,
                            Wrap("failed to push to repo: ",
                                 <<"generated folder not found: ", dto.AppName>>))
            /\ UNCHANGED <<repoURL, cmdIdx>>
       ELSE /\ out' = Append(out, <<"Pushing code to repository...">>)
            /\ repoURL' = BuildRepoURL(ghToken, dto.AppName)
            /\ cmdIdx' = 1
            /\ pc' = "pushCommands"
            /\ UNCHANGED err
    /\ UNCHANGED <<inputs, fs, data, config, dto, uranusBin, cmdLog, exitCode>>

\* Variant of pushToRepoCommand: a command that fails is run a second time.
pushToRepoCommandRetriesOnce ==
    /\ pc = "pushCommands"
    /\ \E ok \in BOOLEAN :
          LET cmd == commands(repoURL)[cmdIdx]
              line == runCommandInDirLine(dto.AppName, cmd.name, cmd.args)
              last == cmdLog[Len(cmdLog)]
          IN /\ cmdLog' = Append(cmdLog, Cmd(cmd.name, cmd.args, dto.AppName, ok))
             /\ IF ~ok /\ (last.args # cmd.args \/ last.ok)
                THEN /\ out' = Append(out, line)
                     /\ UNCHANGED <<pc, err, cmdIdx>>
                ELSE IF ~ok
                THEN /\ ReturnToMain(<<line>>,
                                     Wrap("failed to push to repo: ",
                                          <<"command '", cmd.name>> \o cmd.args \o <<"' failed: ">>
                                              \o ExitError))
                     /\ UNCHANGED cmdIdx
                ELSE IF cmdIdx < NumCommands
                THEN /\ out' = Append(out, line)
                     /\ cmdIdx' = cmdIdx + 1
                     /\ UNCHANGED <<pc, err>>
                ELSE /\ ReturnToMain(<<line>>, nil)
                     /\ UNCHANGED cmdIdx
    /\ UNCHANGED <<inputs, fs, data, config, dto, uranusBin, repoURL, fsLog, exitCode>>

\* Variant of pushToRepoCommand: the loop stops one entry short of the table.
pushToRepoCommandSkipsLast ==
    /\ pc = "pushCommands"
    /\ \E ok \in BOOLEAN :
          LET cmd == commands(repoURL)[cmdIdx]
              line == runCommandInDirLine(dto.AppName, cmd.name, cmd.args)
          IN /\ cmdLog' = Append(cmdLog, Cmd(cmd.name, cmd.args, dto.AppName, ok))
             /\ IF ~ok
                THEN /\ ReturnToMain(<<line>>,
                                     Wrap("failed to push to repo: ",
                                          <<"command '", cmd.name>> \o cmd.args \o <<"' failed: ">>
                                              \o ExitError))
                     /\ UNCHANGED cmdIdx
                ELSE IF cmdIdx < NumCommands - 1
                THEN /\ out' = Append(out, line)
                     /\ cmdIdx' = cmdIdx + 1
                     /\ UNCHANGED <<pc, err>>
                ELSE /\ ReturnToMain(<<line>>, nil)
                     /\ UNCHANGED cmdIdx
    /\ UNCHANGED <<inputs, fs, data, config, dto, uranusBin, repoURL, fsLog, exitCode>>

\* Variant of pushToRepoCommand: a failed command does not end the loop.
pushToRepoCommandNoAbort ==
    /\ pc = "pushCommands"
    /\ \E ok \in BOOLEAN :
          LET cmd == commands(repoURL)[cmdIdx]
              line == runCommandInDirLine(dto.AppName, cmd.name, cmd.args)
          IN /\ cmdLog' = Append(cmdLog, Cmd(cmd.name, cmd.args, dto.AppName, ok))
             /\ IF cmdIdx < NumCommands
                THEN /\ out' = Append(out, line)
                     /\ cmdIdx' = cmdIdx + 1
                     /\ UNCHANGED <<pc, err>>
                ELSE /\ ReturnToMain(<<line>>, nil)
                     /\ UNCHANGED cmdIdx
    /\ UNCHANGED <<inputs, fs, data, config, dto, uranusBin, repoURL, fsLog, exitCode>>

(***************************************************************************)
(* pushToRepo, lines 253-259: one iteration of the loop over commands.     *)
(***************************************************************************)
pushToRepoCommand ==
    /\ pc = "pushCommands"
    /\ \E ok \in BOOLEAN :
          LET cmd == commands(repoURL)[cmdIdx]
              line == runCommandInDirLine(dto.AppName, cmd.name, cmd.args)
          IN /\ cmdLog' = Append(cmdLog, Cmd(cmd.name, cmd.args, dto.AppName, ok))
             /\ IF ~ok
                THEN /\ ReturnToMain(<<line>>,
                                     Wrap("failed to push to repo: ",
                                          <<"command '", cmd.name>> \o cmd.args \o <<"' failed: ">>
                                              \o ExitError))
                     /\ UNCHANGED cmdIdx
                ELSE IF cmdIdx < NumCommands
                THEN /\ out' = Append(out, line)
                     /\ cmdIdx' = cmdIdx + 1
                     /\ UNCHANGED <<pc, err>>
                ELSE /\ ReturnToMain(<<line>>, nil)
                     /\ UNCHANGED cmdIdx
    /\ UNCHANGED <<inputs, fs, data, config, dto, uranusBin, repoURL, fsLog, exitCode>>

\* Variant of mainReturn: the error is printed but the process falls through
\* to the end of main.
mainReturnNoExit ==
    /\ pc = "return"
    /\ IF err # nil
       THEN Exit(<< <<"Error processing service: ">> \o err,
                    <<"Service generated and pushed successfully!">> >>, 0)
       ELSE Exit(<< <<"Service generated and pushed successfully!">> >>, 0)
    /\ UNCHANGED <<inputs, fs, data, config, dto, uranusBin, repoURL, cmdIdx, err, cmdLog, fsLog>>

\* Variant of mainReturn: the error branch neither prints nor exits.
mainReturnHangsOnError ==
    /\ pc = "return"
    /\ err = nil
    /\ Exit(<< <<"Service generated and pushed successfully!">> >>, 0)
    /\ UNCHANGED <<inputs, fs, data, config, dto, uranusBin, repoURL, cmdIdx, err, cmdLog, fsLog>>

(***************************************************************************)
(* main, lines 80-86: processService has returned.                         *)
(***************************************************************************)
mainReturn ==
    /\ pc = "return"
    /\ IF err # nil
       THEN Exit(<< <<"Error processing service: ">> \o err >>, 1)
       ELSE Exit(<< <<"Service generated and pushed successfully!">> >>, 0)
    /\ UNCHANGED <<inputs, fs, data, config, dto, uranusBin, repoURL, cmdIdx, err, cmdLog, fsLog>>

Next ==
    \/ mainArgs
    \/ mainReadFile
    \/ mainUnmarshal
    \/ mainConvert
    \/ processService
    \/ processNodeJS
    \/ processGolang
    \/ getUranusBinary
    \/ getUranusBinaryChmod
    \/ getUranusBinaryInstall
    \/ processGolangGenerate
    \/ createGitHubRepo
    \/ pushToRepo
    \/ pushToRepoCommand
    \/ mainReturn

Spec == Init /\ [][Next]_vars

\* The run is one thread that keeps executing, and every subprocess it waits
\* for returns: a step that can be taken is eventually taken.
LiveSpec == Spec /\ WF_vars(Next)

(***************************************************************************)
(* Vocabulary of the properties: what the logs of a run show.              *)
(***************************************************************************)
HasPath == Len(args) >= 2
Exited == pc = "exited"
Returned == pc \in {"return", "exited"}

IsInstall(c) == c.name = "go" /\ c.args[1] = "install"
IsGenerator(c) == c.args[1] = "generate"
IsRepoCreate(c) == c.name = "gh"
IsGit(c) == c.name = "git"

\* The provisioner step a subprocess belongs to.
StepOfCmd(c) ==
    IF IsInstall(c) THEN 1 ELSE IF IsGenerator(c) THEN 2 ELSE IF IsRepoCreate(c) THEN 3 ELSE 4

\* The provisioner steps entered so far, read off the progress lines.
StepLines ==
    << <<"Finding uranus CLI...">>, <<"Generating app: ", dto.AppName>>,
       <<"Creating GitHub repository: ", dto.AppName>>, <<"Pushing code to repository...">> >>
IsStepLine(line) == \E k \in 1..4 : line = StepLines[k]
StepsEntered == SelectSeq(out, IsStepLine)

GitLog == SelectSeq(cmdLog, IsGit)
LastLine == out[Len(out)]
Printed(line) == \E i \in 1..Len(out) : out[i] = line
Failed(c) == ~c.ok
ChmodFailed == <<"Chmod", binaryPath>> \in {fsLog[i] : i \in 1..Len(fsLog)} /\ uranusBin = "" /\ Returned
FolderChecked == \E i \in 1..Len(fsLog) : fsLog[i] = <<"Stat", dto.AppName>>
FolderMissing == FolderChecked /\ StatFolder(dto.AppName) = "notexist"
InputLanguage == Unmarshal(fs.file.doc).Metadata.ProgrammingLanguage

\* C1: in a golang run the steps are entered in the order Resolve, Generate,
\* CreateRepo, Push, each at most once and only after the previous one has
\* returned; a failure in Resolve, Generate or Push ends the run in failure
\* with no later subprocess, and only a failed repository creation can be
\* followed by further steps and by exit status 0.
C1_StepOrder ==
    /\ StepsEntered = SubSeq(StepLines, 1, Len(StepsEntered))
    /\ \A i \in 1..Len(cmdLog) :
          /\ StepOfCmd(cmdLog[i]) <= Len(StepsEntered)
          /\ i < Len(cmdLog) => StepOfCmd(cmdLog[i]) <= StepOfCmd(cmdLog[i + 1])
          /\ (Failed(cmdLog[i]) /\ ~IsRepoCreate(cmdLog[i])) =>
                /\ i = Len(cmdLog)
                /\ Len(StepsEntered) = StepOfCmd(cmdLog[i])
                /\ Returned /\ err # nil
                /\ Exited => exitCode = 1
    /\ (ChmodFailed \/ FolderMissing) =>
          /\ Returned /\ err # nil
          /\ Len(StepsEntered) = (IF ChmodFailed THEN 1 ELSE 4)
          /\ \A i \in 1..Len(cmdLog) : StepOfCmd(cmdLog[i]) < Len(StepsEntered)
          /\ Exited => exitCode = 1
    /\ (pc = "getUranusBinary" \/ pc = "Chmod" \/ pc = "goInstall") => Len(StepsEntered) = 1
    /\ pc = "generate" => Len(StepsEntered) = 1
    /\ pc = "createGitHubRepo" => Len(StepsEntered) = 2
    /\ pc = "pushToRepo" => Len(StepsEntered) = 3
    /\ pc = "pushCommands" => Len(StepsEntered) = 4

C1_Witness ==
    /\ Exited /\ exitCode = 0
    /\ Len(StepsEntered) = 4
    /\ \E i \in 1..Len(cmdLog) : IsRepoCreate(cmdLog[i]) /\ Failed(cmdLog[i])

\* C2: a failed gh repo create never ends the run: createGitHubRepo returns
\* no error, the run goes on to the push step, and whenever generation
\* succeeded the folder check of the push step is reached.
C2_RepoCreateNonFatal ==
    /\ \A i \in 1..Len(cmdLog) : IsRepoCreate(cmdLog[i]) =>
          /\ pc \in {"pushToRepo", "pushCommands", "return", "exited"}
          /\ pc # "pushToRepo" => FolderChecked
          /\ (err # nil => err[1] = "failed to push to repo: ")
    /\ \A i \in 1..Len(cmdLog) : (IsGenerator(cmdLog[i]) /\ cmdLog[i].ok /\ Returned) => FolderChecked
    /\ pc = "pushToRepo" => cmdLog[Len(cmdLog)].name = "gh"

C2_Witness ==
    /\ FolderChecked
    /\ \E i \in 1..Len(cmdLog) : IsRepoCreate(cmdLog[i]) /\ Failed(cmdLog[i])

\* C3: the git commands run in the order init, config user.email, config
\* user.name, remote add origin, add -A, commit, branch -M main, push -u
\* origin main --force; a command runs only if all before it succeeded, and
\* the first failure ends the step with an error naming the command and its
\* arguments.
GitOrder ==
    << <<"init">>,
       <<"config", "user.email", "github-actions[bot]@users.noreply.github.com">>,
       <<"config", "user.name", "github-actions[bot]">>,
       <<"remote", "add", "origin", repoURL>>,
       <<"add", "-A">>,
       <<"commit", "-m", "Initial commit from jupiter-registry">>,
       <<"branch", "-M", "main">>,
       <<"push", "-u", "origin", "main", "--force">> >>

C3_PushSequence ==
    /\ Len(GitLog) <= 8
    /\ \A k \in 1..Len(GitLog) :
          /\ GitLog[k].args = GitOrder[k]
          /\ k < Len(GitLog) => GitLog[k].ok
          /\ Failed(GitLog[k]) =>
                /\ Returned
                /\ err = <<"failed to push to repo: ", "command '", "git">> \o GitOrder[k]
                             \o <<"' failed: ">> \o ExitError
    /\ pc = "pushCommands" => (Len(GitLog) = cmdIdx - 1 /\ \A k \in 1..Len(GitLog) : GitLog[k].ok)
    /\ (Returned /\ GitLog # <<>> /\ err = nil) => Len(GitLog) = 8

C3_Witness ==
    /\ Returned
    /\ Len(GitLog) = 5
    /\ Failed(GitLog[5])

\* C4: when the folder named as the application is absent at the start of
\* the push step, the step fails with "generated folder not found" and no
\* git command is run.
C4_FolderMissing ==
    FolderMissing =>
        /\ Returned
        /\ err = <<"failed to push to repo: ", "generated folder not found: ", dto.AppName>>
        /\ GitLog = <<>>
        /\ Exited => exitCode = 1

C4_Witness ==
    /\ FolderMissing /\ Exited
    /\ dto.AppName # ""
    /\ \E i \in 1..Len(cmdLog) : IsGenerator(cmdLog[i]) /\ cmdLog[i].ok

\* C5: a run given a path exits 0 exactly when the language was nodejs or
\* the golang pipeline ended with a successful force-push, and exits 1 on
\* every read, parse, dispatch and provisioning failure.
PushSucceeded ==
    /\ Len(GitLog) = 8
    /\ GitLog[8].ok
    /\ GitLog[8].args[1] = "push"

RunFailed ==
    \/ fs.file.kind \in {"missing", "denied", "malformed"}
    \/ InputLanguage \notin {"golang", "nodejs"}
    \/ ChmodFailed
    \/ FolderMissing
    \/ \E i \in 1..Len(cmdLog) : Failed(cmdLog[i]) /\ ~IsRepoCreate(cmdLog[i])

C5_ExitStatus ==
    (Exited /\ HasPath) =>
        /\ exitCode \in {0, 1}
        /\ exitCode = 0 <=> \/ (fs.file.kind = "valid" /\ InputLanguage = "nodejs")
                            \/ (fs.file.kind = "valid" /\ InputLanguage = "golang" /\ PushSucceeded)
        /\ RunFailed => exitCode = 1

C5_Witness ==
    /\ Exited /\ HasPath /\ exitCode = 0
    /\ InputLanguage = "golang" /\ PushSucceeded

\* C6 as stated: with no path argument the program prints the usage lines
\* and exits with status 0, reading no file and running no subprocess.
C6_Original ==
    (Exited /\ ~HasPath) =>
        /\ exitCode = 0
        /\ Printed(<<"Usage: go run generate_source.go <path-to-service-folder>">>)
        /\ fsLog = <<>> /\ cmdLog = <<>>

\* C6 amended: with no path argument the program prints the usage lines and
\* exits with status 1, reading no file and running no subprocess.
C6_UsageExit ==
    ~HasPath =>
        /\ fsLog = <<>> /\ cmdLog = <<>>
        /\ pc \in {"main", "exited"}
        /\ Exited =>
              /\ exitCode = 1
              /\ Printed(<<"Usage: go run generate_source.go <path-to-service-folder>">>)

C6_Witness == Exited /\ ~HasPath /\ Len(out) = 2

\* C7: a language that is neither "golang" nor "nodejs" (exact match; the
\* empty string of a missing field included) fails the run with "unsupported
\* programming language" followed by the value, and no subprocess is run.
Unsupported == HasPath /\ fs.file.kind = "valid" /\ InputLanguage \notin {"golang", "nodejs"}

C7_UnsupportedLanguage ==
    Unsupported =>
        /\ cmdLog = <<>>
        /\ Returned => err = <<"unsupported programming language: ", InputLanguage>>
        /\ Exited =>
              /\ exitCode = 1
              /\ LastLine = <<"Error processing service: ", "unsupported programming language: ",
                              InputLanguage>>

C7_Witness == Unsupported /\ Exited /\ InputLanguage = "Golang"

\* C8: when the directory holds no source.yml the run fails with the read
\* error and no subprocess is ever run.
C8_MissingDescriptor ==
    (HasPath /\ fs.file.kind = "missing") =>
        /\ cmdLog = <<>>
        /\ pc \in {"main", "ReadFile", "exited"}
        /\ Exited =>
              /\ exitCode = 1
              /\ LastLine[1] = "Error reading file "
              /\ LastLine[2] = PathStr(sourceFile)

C8_Witness == HasPath /\ fs.file.kind = "missing" /\ Exited /\ Len(fsLog) = 1

\* C9: for the language "nodejs" no subprocess is run at any point, the
\* not-implemented warning is printed, and the run exits 0.
NodeJS == HasPath /\ fs.file.kind = "valid" /\ InputLanguage = "nodejs"

C9_NodeJS ==
    NodeJS =>
        /\ cmdLog = <<>>
        /\ Returned => (err = nil /\ Printed(<<"NodeJS processing not implemented yet">>))
        /\ Exited => exitCode = 0

C9_Witness == NodeJS /\ Exited /\ Len(config.Members) = 2

\* C10: when the binary for the current OS and architecture is present in
\* dist, go install is never run, and the generator is run through the path
\* of that local binary.
C10_LocalBinary ==
    fs.binaryStat = "ok" =>
        /\ \A i \in 1..Len(cmdLog) :
              /\ ~IsInstall(cmdLog[i])
              /\ IsGenerator(cmdLog[i]) =>
                    cmdLog[i].name = "dist/uranus-" \o platform[1] \o "-" \o platform[2]
        /\ pc # "goInstall"
        /\ pc = "generate" => uranusBin = "dist/uranus-" \o platform[1] \o "-" \o platform[2]
        /\ pc \in {"createGitHubRepo", "pushToRepo", "pushCommands"} =>
              \E i \in 1..Len(cmdLog) : IsGenerator(cmdLog[i])

C10_Witness ==
    /\ fs.binaryStat = "ok"
    /\ \E i \in 1..Len(cmdLog) : IsGenerator(cmdLog[i]) /\ cmdLog[i].name = binaryPath

\* C11: when the local binary is absent, go install is run exactly once
\* before the run goes on; the generator is run, by the bare name uranus,
\* only after that install succeeded; a failed install fails the run with
\* "failed to install uranus CLI" and the generator is never run.
InstallCount == Len(SelectSeq(cmdLog, IsInstall))
GeneratorCount == Len(SelectSeq(cmdLog, IsGenerator))
BinaryStatDone == \E i \in 1..Len(fsLog) : fsLog[i] = <<"Stat", binaryPath>>

C11_InstallFallback ==
    fs.binaryStat = "notexist" =>
        /\ InstallCount <= 1
        /\ \A i \in 1..Len(cmdLog) :
              /\ IsInstall(cmdLog[i]) =>
                    (i = 1 /\ cmdLog[i].args = <<"install", "github.com/tqhuy-dev/xgen-uranus@latest">>)
              /\ IsGenerator(cmdLog[i]) =>
                    (i = 2 /\ cmdLog[i].name = "uranus" /\ IsInstall(cmdLog[1]) /\ cmdLog[1].ok)
        /\ pc \in {"generate", "createGitHubRepo", "pushToRepo", "pushCommands"} =>
              (InstallCount = 1 /\ cmdLog[1].ok)
        /\ pc = "goInstall" => cmdLog = <<>>
        /\ (cmdLog # <<>> /\ Failed(cmdLog[1])) =>
              /\ Returned
              /\ Len(cmdLog) = 1
              /\ err = <<"failed to get uranus binary: ", "failed to install uranus CLI: ">> \o ExitError
              /\ Exited => exitCode = 1
        /\ (Exited /\ BinaryStatDone) => InstallCount = 1

C11_Witness ==
    /\ fs.binaryStat = "notexist"
    /\ Len(cmdLog) >= 2
    /\ IsInstall(cmdLog[1]) /\ IsGenerator(cmdLog[2])

\* C12: no command line (program and argument list) is run twice in a run:
\* at most one go install, one generator, one gh repo create and eight git
\* commands, whatever the outcomes.
C12_NoRetries ==
    /\ \A i, j \in 1..Len(cmdLog) :
          (cmdLog[i].name = cmdLog[j].name /\ cmdLog[i].args = cmdLog[j].args) => i = j
    /\ InstallCount <= 1
    /\ GeneratorCount <= 1
    /\ Len(SelectSeq(cmdLog, IsRepoCreate)) <= 1
    /\ Len(GitLog) <= 8
    /\ Len(cmdLog) <= 11

C12_Witness ==
    /\ Exited
    /\ Len(cmdLog) = 11
    /\ Failed(cmdLog[11]) /\ Failed(cmdLog[3])

\* C13: after parsing, the DTO is the projection of the document: the
\* application name is name, language, framework and module are the three
\* metadata fields, the members are the document's members in the same
\* order; source_id is dropped and nothing else is changed.
Converted == HasPath /\ fs.file.kind = "valid" /\ pc \notin {"main", "ReadFile", "Unmarshal", "Convert"}
DocMetadata == Field(fs.file.doc, "metadata", <<>>)

C13_DtoProjection ==
    Converted =>
        /\ DOMAIN dto = {"AppName", "ProgrammingLanguage", "Framework", "Module", "Members"}
        /\ dto.AppName = Field(fs.file.doc, "name", "")
        /\ dto.ProgrammingLanguage = Field(DocMetadata, "programming_language", "")
        /\ dto.Framework = Field(DocMetadata, "framework", "")
        /\ dto.Module = Field(DocMetadata, "module", "")
        /\ Len(dto.Members) = Len(Field(fs.file.doc, "members", <<>>))
        /\ \A i \in 1..Len(dto.Members) : dto.Members[i] = fs.file.doc.members[i]
        /\ dto.AppName = config.Name /\ dto.Members = config.Members
        /\ config.SourceID = Field(fs.file.doc, "source_id", "")

C13_Witness ==
    /\ Converted
    /\ dto.Members = <<"bob", "alice">>
    /\ config.SourceID = "id-1"
    /\ dto.Module = "custom/mod"

\* C14: for a golang descriptor the generator is run with --name <name> and
\* --module github.com/tqhuy-dev/<name>, whatever metadata.module says; the
\* repository is created as tqhuy-dev/<name>; the folder checked and the
\* directory of every git command is <name>.
InputName == Field(fs.file.doc, "name", "")

C14_NamesAndModule ==
    /\ \A i \in 1..Len(cmdLog) :
          /\ IsGenerator(cmdLog[i]) =>
                /\ cmdLog[i].args = <<"generate", "app", "--name", InputName, "--module",
                                      "github.com/tqhuy-dev/" \o InputName, "--skip_init=true">>
                /\ cmdLog[i].dir = ""
          /\ IsRepoCreate(cmdLog[i]) =>
                cmdLog[i].args = <<"repo", "create", "tqhuy-dev/" \o InputName, "--private", "--confirm">>
          /\ IsGit(cmdLog[i]) => cmdLog[i].dir = InputName
    /\ \A i \in 1..Len(fsLog) :
          (fsLog[i][1] = "Stat" /\ fsLog[i][2] # binaryPath) => fsLog[i][2] = InputName
    /\ pc \in {"pushToRepo", "pushCommands"} => GeneratorCount = 1

C14_Witness ==
    /\ InputName = "sample-svc"
    /\ Field(DocMetadata, "module", "") = "custom/mod"
    /\ GeneratorCount = 1
    /\ Len(GitLog) >= 1

\* C15: the URL given to git remote add origin embeds GH_TOKEN when it is
\* not empty, whatever GITHUB_TOKEN is; otherwise GITHUB_TOKEN when it is
\* not empty; otherwise it is the URL without credentials.  The URL is fixed
\* before the first git command runs.
ExpectedRepoURL ==
    IF env.GH_TOKEN # ""
    THEN "https://x-access-token:" \o env.GH_TOKEN \o "@github.com/tqhuy-dev/" \o InputName \o ".git"
    ELSE IF env.GITHUB_TOKEN # ""
    THEN "https://x-access-token:" \o env.GITHUB_TOKEN \o "@github.com/tqhuy-dev/" \o InputName \o ".git"
    ELSE "https://github.com/tqhuy-dev/" \o InputName \o ".git"

C15_TokenPrecedence ==
    /\ (pc = "pushCommands" \/ GitLog # <<>>) => repoURL = ExpectedRepoURL
    /\ Len(GitLog) >= 4 => GitLog[4].args = <<"remote", "add", "origin", ExpectedRepoURL>>
    /\ (GitLog = <<>> /\ pc # "pushCommands") => repoURL = ""

C15_Witness ==
    /\ env.GH_TOKEN # "" /\ env.GITHUB_TOKEN # ""
    /\ Len(GitLog) >= 4
    /\ GitLog[4].ok

\* C16: a golang run that prints the success line and exits 0 has run the
\* generator successfully and all eight git commands, in order and each
\* successfully, the force-push last; gh repo create may have failed.  The
\* nodejs run prints the same line with no subprocess run.
SuccessLine == <<"Service generated and pushed successfully!">>

C16_SuccessMeansPushed ==
    (Exited /\ HasPath /\ (exitCode = 0 \/ Printed(SuccessLine))) =>
        /\ exitCode = 0 /\ LastLine = SuccessLine
        /\ dto.ProgrammingLanguage \in {"golang", "nodejs"}
        /\ dto.ProgrammingLanguage = "nodejs" => cmdLog = <<>>
        /\ dto.ProgrammingLanguage = "golang" =>
              /\ \E i \in 1..Len(cmdLog) : IsGenerator(cmdLog[i]) /\ cmdLog[i].ok
              /\ Len(GitLog) = 8
              /\ \A k \in 1..8 : GitLog[k].ok /\ GitLog[k].args = GitOrder[k]
              /\ cmdLog[Len(cmdLog)].args = <<"push", "-u", "origin", "main", "--force">>
              /\ \A i \in 1..Len(cmdLog) : Failed(cmdLog[i]) => IsRepoCreate(cmdLog[i])

C16_Witness ==
    /\ Exited /\ Printed(SuccessLine)
    /\ dto.ProgrammingLanguage = "golang"
    /\ uranusBin = "uranus"
    /\ \E i \in 1..Len(cmdLog) : IsRepoCreate(cmdLog[i]) /\ Failed(cmdLog[i])

\* C17: when the local binary is found and chmod fails, the run fails with
\* "failed to chmod binary", exits 1, and neither go install nor the
\* generator is run.
ChmodDone == \E i \in 1..Len(fsLog) : fsLog[i] = <<"Chmod", binaryPath>>

C17_ChmodFailure ==
    /\ ChmodDone => (fs.binaryStat = "ok" /\ InstallCount = 0)
    /\ (ChmodDone /\ uranusBin = "") =>
          /\ Returned
          /\ cmdLog = <<>>
          /\ Len(err) = 3
          /\ err[1] = "failed to get uranus binary: " /\ err[2] = "failed to chmod binary: "
          /\ Exited =>
                /\ exitCode = 1
                /\ LastLine = <<"Error processing service: ">> \o err

C17_Witness == ChmodDone /\ uranusBin = "" /\ Exited

\* C18: the push step fails with "generated folder not found" only when
\* Stat reports not-exist, and on every other outcome (success, permission
\* denied) goes on to git init; the local binary is used only when Stat
\* succeeds, and every Stat error leads to go install.
FolderNotFoundError == Len(err) >= 2 /\ err[2] = "generated folder not found: "

C18_StatOutcomes ==
    /\ FolderChecked =>
          IF StatFolder(dto.AppName) = "notexist"
          THEN FolderNotFoundError /\ GitLog = <<>>
          ELSE /\ ~FolderNotFoundError
               /\ \/ (pc = "pushCommands" /\ cmdIdx = 1 /\ GitLog = <<>>)
                  \/ (GitLog # <<>> /\ GitLog[1].args = <<"init">>)
    /\ FolderNotFoundError => (FolderChecked /\ StatFolder(dto.AppName) = "notexist")
    /\ BinaryStatDone =>
          IF fs.binaryStat = "ok"
          THEN /\ InstallCount = 0
               /\ pc = "Chmod" \/ ChmodDone
               /\ uranusBin \in {"", binaryPath}
          ELSE /\ ~ChmodDone
               /\ pc = "goInstall" \/ (cmdLog # <<>> /\ IsInstall(cmdLog[1]))
               /\ uranusBin \in {"", "uranus"}

C18_Witness ==
    /\ fs.binaryStat = "denied" /\ fs.folderStat = "denied"
    /\ dto.AppName # ""
    /\ GitLog # <<>>

\* C19: with every subprocess returning, every run reaches the exit; the
\* position of the run only moves forward, and every state before the exit
\* has a next step.
Rank ==
    CASE pc = "main" -> 0
      [] pc = "ReadFile" -> 1
      [] pc = "Unmarshal" -> 2
      [] pc = "Convert" -> 3
      [] pc = "processService" -> 4
      [] pc = "processNodeJS" -> 5
      [] pc = "processGolang" -> 5
      [] pc = "getUranusBinary" -> 6
      [] pc = "Chmod" -> 7
      [] pc = "goInstall" -> 7
      [] pc = "generate" -> 8
      [] pc = "createGitHubRepo" -> 9
      [] pc = "pushToRepo" -> 10
      [] pc = "pushCommands" -> 10 + cmdIdx
      [] pc = "return" -> 20
      [] pc = "exited" -> 21

C19_Termination ==
    /\ <>(Exited /\ exitCode \in {0, 1})
    /\ [](~Exited => ENABLED Next)
    /\ [][Rank' > Rank]_vars
    /\ [](Exited => [](Exited /\ ~ENABLED Next))

C19_Witness == Exited /\ Len(GitLog) = 8 /\ InstallCount = 1

====
